---- MODULE Spec2Model ----
(***************************************************************************)
(* LifeGuard AI cardiac crisis coordinator: the triage-and-notify Lambda   *)
(* handler of src/lambda_function.py.  One invocation reads the patient    *)
(* profile, asks the language model for a verdict, conditionally mails the *)
(* caregiver and assembles the response.  Texts are sequences of tokens.   *)
(***************************************************************************)
EXTENDS Integers, Sequences, FiniteSets, TLC

VARIABLES pc, event, clients, user_input, patient_data, completion_text,
          classification, alert_result, calls, response

vars == <<pc, event, clients, user_input, patient_data, completion_text,
          classification, alert_result, calls, response>>

(* ---------------- configuration (module globals) ---------------- *)

PATIENT_ID == "P101"

SENDER_EMAIL == "yourverifiedemail@example.com"

(* ---------------- bounds of the model ---------------- *)

\* longest prose put before, and after, the object in a completion text
MaxPad == 2

\* longest completion text made of braces, prose and blanks only
MaxText == 4

(* ---------------- texts as token sequences ---------------- *)

WS == " "

LBRACE == "{"

RBRACE == "}"

COLON == ":"

COMMA == ","

\* a JSON string literal is one token; these are the literals that occur
StringToks == {"emergency_type", "action", "note",
               "CARDIAC_STROKE", "FALLS_FRACTURES", "BREATHING_CRISIS",
               "NONE", "ERROR", "PANIC",
               "MOCK_AMBULANCE_DISPATCH", "ADVISE_INHALER", "ALERT_FAMILY",
               "CALL_DOCTOR"}

\* prose words and a markdown heading mark: neither JSON punctuation nor a literal
ProseToks == {"Sure", "##"}

Absent == "<absent>"

Nested == "<object>"

\* str.strip(): drop leading and trailing whitespace
RECURSIVE strip(_)
strip(s) ==
    IF s = <<>> THEN s
    ELSE IF Head(s) = WS THEN strip(Tail(s))
    ELSE IF s[Len(s)] = WS THEN strip(SubSeq(s, 1, Len(s) - 1))
    ELSE s

\* a find that answers 0, not -1, when there is no c
find_mut(s, c) ==
    IF \E i \in 1..Len(s) : s[i] = c
    THEN (CHOOSE i \in 1..Len(s) :
              s[i] = c /\ \A j \in 1..(i - 1) : s[j] # c) - 1
    ELSE 0

\* str.find(c): 0-based index of the first c, -1 when there is none
find(s, c) ==
    IF \E i \in 1..Len(s) : s[i] = c
    THEN (CHOOSE i \in 1..Len(s) :
              s[i] = c /\ \A j \in 1..(i - 1) : s[j] # c) - 1
    ELSE -1

\* str.rfind(c): 0-based index of the last c, -1 when there is none
rfind(s, c) ==
    IF \E i \in 1..Len(s) : s[i] = c
    THEN (CHOOSE i \in 1..Len(s) :
              s[i] = c /\ \A j \in (i + 1)..Len(s) : s[j] # c) - 1
    ELSE -1

\* a slice that stops one short of end
slice_mut(s, start, end) == SubSeq(s, start + 1, end - 1)

\* s[start:end] for 0 <= start < end <= len(s)
slice(s, start, end) == SubSeq(s, start + 1, end)

(* ---------------- json.loads on a token sequence ---------------- *)

\* a parsed object, reduced to the two keys the program reads; other says
\* whether any further key was present
EmptyObj == [emergency_type |-> Absent, action |-> Absent, other |-> FALSE]

\* a store that files every value under emergency_type
PutKey_mut(obj, k, v) == [obj EXCEPT !.emergency_type = v]

\* dict[k] = v, a repeated key keeping the last value
PutKey(obj, k, v) ==
    IF k = "emergency_type" THEN [obj EXCEPT !.emergency_type = v]
    ELSE IF k = "action" THEN [obj EXCEPT !.action = v]
    ELSE [obj EXCEPT !.other = TRUE]

ParseFail == [ok |-> FALSE, next |-> 0, val |-> Absent, obj |-> EmptyObj]

RECURSIVE SkipWs(_, _)
SkipWs(s, i) == IF i <= Len(s) /\ s[i] = WS THEN SkipWs(s, i + 1) ELSE i

RECURSIVE ParseValue(_, _), ParsePairs(_, _, _)

\* a value at position i: a string literal or an object
ParseValue(s, i) ==
    IF i > Len(s) THEN ParseFail
    ELSE IF s[i] \in StringToks
         THEN [ok |-> TRUE, next |-> i + 1, val |-> s[i], obj |-> EmptyObj]
    ELSE IF s[i] = LBRACE
         THEN LET j == SkipWs(s, i + 1) IN
              IF j <= Len(s) /\ s[j] = RBRACE
              THEN [ok |-> TRUE, next |-> j + 1, val |-> Nested,
                    obj |-> EmptyObj]
              ELSE ParsePairs(s, j, EmptyObj)
    ELSE ParseFail

\* key : value pairs from position i up to the closing brace
ParsePairs(s, i, obj) ==
    IF i > Len(s) \/ s[i] \notin StringToks THEN ParseFail
    ELSE LET c == SkipWs(s, i + 1) IN
         IF c > Len(s) \/ s[c] # COLON THEN ParseFail
         ELSE LET v == ParseValue(s, SkipWs(s, c + 1)) IN
              IF ~v.ok THEN ParseFail
              ELSE LET e == SkipWs(s, v.next)
                       o == PutKey(obj, s[i], v.val)
                   IN  IF e > Len(s) THEN ParseFail
                       ELSE IF s[e] = RBRACE
                            THEN [ok |-> TRUE, next |-> e + 1,
                                  val |-> Nested, obj |-> o]
                       ELSE IF s[e] = COMMA
                            THEN ParsePairs(s, SkipWs(s, e + 1), o)
                       ELSE ParseFail

\* json.loads(text): one value, whitespace around it, nothing else
json_loads(s) ==
    LET r == ParseValue(s, SkipWs(s, 1)) IN
    IF r.ok /\ SkipWs(s, r.next) > Len(s) THEN r ELSE ParseFail

(* ---------------- classify_emergency, after the model call ------------ *)

ErrorVerdict == [emergency_type |-> "ERROR", action |-> "ERROR",
                 other |-> FALSE]

\* the brace slice of the completion: "sentinel" when no slice is taken,
\* "raise" when json.loads raises, "ok" with the parsed object otherwise
extract_json(text) ==
    LET t == strip(text)
        start == find(t, LBRACE)
        end == rfind(t, RBRACE) + 1
    IN  IF start # -1 /\ end # -1 /\ start < end
        THEN LET r == json_loads(slice(t, start, end)) IN
             IF r.ok THEN [kind |-> "ok", obj |-> r.obj]
             ELSE [kind |-> "raise", obj |-> EmptyObj]
        ELSE [kind |-> "sentinel", obj |-> ErrorVerdict]

(* ---------------- inputs of an invocation ---------------- *)

HttpMethods == {Absent, "GET", "POST", "OPTIONS"}

DefaultSymptoms == <<"No symptoms provided.">>

SymptomTexts == {<< >>, <<WS>>, <<WS, "chest pain", WS>>}

\* event['body']: the key may be missing, hold null, hold text that is not
\* JSON, a JSON array, or a JSON object whose 'symptoms' is missing, a
\* number or a string
Bodies ==
    {[kind |-> k, symptoms |-> Absent, text |-> << >>] :
         k \in {"absent", "null", "invalid", "array"}}
    \cup {[kind |-> "object", symptoms |-> k, text |-> << >>] :
         k \in {Absent, "number"}}
    \cup {[kind |-> "object", symptoms |-> "string", text |-> t] :
         t \in SymptomTexts}

Events == [httpMethod : HttpMethods, body : Bodies]

NoEvent == [httpMethod |-> Absent,
            body |-> [kind |-> "absent", symptoms |-> Absent, text |-> << >>]]

CaregiverAddress == "caregiver@example.org"

\* an item of the table, each attribute reduced to the kind of value the
\* resource layer hands back (Absent: the item lacks the attribute)
Profiles == [Name : {Absent, "str"}, Age : {"number"},
             Comorbidities : {Absent, "list", "stringset"}, Meds : {"list"},
             Caregiver_Email : {Absent, "", CaregiverAddress}]

NoProfile == [Name |-> Absent, Age |-> Absent, Comorbidities |-> Absent,
              Meds |-> Absent, Caregiver_Email |-> Absent]

\* the provider's message in a ClientError raised by send_email
RejectReasons == {"Email address is not verified.",
                  "Maximum sending rate exceeded."}

\* outcomes of ses_client.send_email: accepted, a ClientError with a
\* reason, or an exception that is not a ClientError
MailOutcomes == {"ack", "unreachable"} \cup RejectReasons

(* ---------------- completion texts of the model ---------------- *)

EmergencyValues == {"CARDIAC_STROKE", "FALLS_FRACTURES", "BREATHING_CRISIS",
                    "NONE", "ERROR", "PANIC"}

ActionValues == {"MOCK_AMBULANCE_DISPATCH", "ADVISE_INHALER", "ALERT_FAMILY",
                 "NONE", "ERROR", "CALL_DOCTOR"}

\* the text of {"emergency_type": et, "action": act}
ObjText(et, act) ==
    <<LBRACE, "emergency_type", COLON, WS, et, COMMA, WS,
      "action", COLON, WS, act, RBRACE>>

TargetText == ObjText("BREATHING_CRISIS", "ADVISE_INHALER")

TargetVerdict == [emergency_type |-> "BREATHING_CRISIS",
                  action |-> "ADVISE_INHALER", other |-> FALSE]

\* completions the main specification draws from: clean objects, objects
\* lacking a key or carrying another one, and texts that are not an object
CompletionTexts ==
    {ObjText(et, act) : et \in EmergencyValues, act \in ActionValues}
    \cup {<<LBRACE, "emergency_type", COLON, et, RBRACE>> :
              et \in EmergencyValues}
    \cup {<<LBRACE, "action", COLON, "ALERT_FAMILY", RBRACE>>,
          <<LBRACE, RBRACE>>,
          <<LBRACE, "emergency_type", COLON, "NONE", COMMA,
            "action", COLON, "NONE", COMMA, "note", COLON, "PANIC", RBRACE>>,
          <<LBRACE, "emergency_type", COLON, LBRACE, RBRACE, COMMA,
            "action", COLON, "NONE", RBRACE>>,
          <<LBRACE, "emergency_type", "NONE", RBRACE>>,
          <<"Sure", WS>> \o TargetText \o <<WS, "##">>,
          <<LBRACE, "Sure", RBRACE, WS>> \o TargetText,
          <<RBRACE, WS, LBRACE>>, <<LBRACE>>, <<RBRACE>>,
          <<"Sure">>, << >>}

PadToks == {"Sure", "##", WS, LBRACE, RBRACE}

RECURSIVE SeqsUpTo(_, _)
SeqsUpTo(S, n) ==
    IF n = 0 THEN {<< >>}
    ELSE LET shorter == SeqsUpTo(S, n - 1) IN
         shorter \cup {Append(s, x) : s \in shorter, x \in S}

Pads == SeqsUpTo(PadToks, MaxPad)

\* the target object inside surrounding text
PaddedTexts == {pre \o TargetText \o suf : pre \in Pads, suf \in Pads}

ShortToks == {"Sure", WS, LBRACE, RBRACE}

\* every text of braces, prose and blanks up to MaxText tokens
ShortTexts == SeqsUpTo(ShortToks, MaxText)

(* ---------------- response envelopes ---------------- *)

NoAlert == [AlertStatus |-> Absent, Message |-> << >>]

NoPacket == [name |-> Absent, comorbidities |-> Absent, meds |-> Absent]

\* the part every envelope shares; keys are the keys of the JSON body
Envelope(code, status, message, keys) ==
    [statusCode |-> code, status |-> status, message |-> message,
     keys |-> keys, error_detail |-> << >>, input_symptoms |-> << >>,
     ai_classification |-> EmptyObj, patient_info_packet |-> NoPacket,
     alert_status |-> NoAlert]

InitFailureEnvelope ==
    Envelope(500, "Error", "Critical: AWS Client Initialization Failed.",
             {"status", "message"})

ReadyEnvelope ==
    Envelope(200, "Ready for POST", "Agent is waiting for symptom data.",
             {"status", "message"})

\* the except clause answering 200
ErrorEnvelope_mut(detail) ==
    [Envelope(200, "Error", "Backend Processing Failure.",
              {"status", "message", "error_detail"})
        EXCEPT !.error_detail = detail]

\* the except clause of lambda_handler
ErrorEnvelope(detail) ==
    [Envelope(500, "Error", "Backend Processing Failure.",
              {"status", "message", "error_detail"})
        EXCEPT !.error_detail = detail]

\* dict.get(key) on the item: None when the attribute is missing
GetOrNone(v) == IF v = Absent THEN "None" ELSE v

PacketOf(p) == [name |-> GetOrNone(p.Name),
                comorbidities |-> GetOrNone(p.Comorbidities),
                meds |-> GetOrNone(p.Meds)]

SuccessEnvelope(input, verdict, p, alert) ==
    [Envelope(200, "Success", "AI Agent workflow completed.",
              {"status", "message", "input_symptoms", "ai_classification",
               "patient_info_packet", "alert_status"})
        EXCEPT !.input_symptoms = input, !.ai_classification = verdict,
               !.patient_info_packet = PacketOf(p), !.alert_status = alert]

\* json.dumps accepts str, list and None; a number of the table arrives as
\* Decimal and a string set as set, and neither is serializable
JsonSerializable(v) == v \in {"str", "list", "None"}

PacketSerializable(p) ==
    /\ JsonSerializable(GetOrNone(p.Name))
    /\ JsonSerializable(GetOrNone(p.Comorbidities))
    /\ JsonSerializable(GetOrNone(p.Meds))

NotFoundDetail == <<"Patient ID ", PATIENT_ID, " not found.">>

(* ---------------- decisions of the handler ---------------- *)

\* the constructors of initialize_clients, in the order it calls them
ClientNames == <<"bedrock-runtime", "dynamodb", "ses">>

\* initialize_clients: the three handles, or None three times when the
\* constructor named failing raised (Absent: none raised); a handle is
\* reduced to whether it is one
initialize_clients(failing) ==
    IF failing = Absent THEN <<TRUE, TRUE, TRUE>> ELSE <<FALSE, FALSE, FALSE>>

\* the handler going on without looking at the handles
AllClients_mut(handles) == TRUE

\* all([bedrock_runtime, dynamodb, ses_client])
AllClients(handles) == \A k \in 1..Len(handles) : handles[k]

\* the gate testing the verb only, not whether the key is there
IsProbe_mut(ev) == ev.httpMethod = "GET"

\* the health-probe test of the entry gate
IsProbe(ev) == ev.httpMethod = Absent \/ ev.httpMethod = "GET"

\* json.loads(event.get('body', '{}')), .get('symptoms', '').strip() and the
\* default: the input text, or the exception raised on the way
ParseBody(body) ==
    LET raw == IF body.kind = "absent"
               THEN [kind |-> "object", symptoms |-> Absent, text |-> << >>]
               ELSE body
    IN  IF raw.kind = "null"
        THEN [ok |-> FALSE, text |-> << >>, detail |-> <<"TypeError">>]
        ELSE IF raw.kind = "invalid"
        THEN [ok |-> FALSE, text |-> << >>, detail |-> <<"JSONDecodeError">>]
        ELSE IF raw.kind = "array" \/ raw.symptoms = "number"
        THEN [ok |-> FALSE, text |-> << >>, detail |-> <<"AttributeError">>]
        ELSE LET t == IF raw.symptoms = Absent THEN << >>
                      ELSE strip(raw.text)
             IN  [ok |-> TRUE, detail |-> << >>,
                  text |-> IF t = << >> THEN DefaultSymptoms ELSE t]

\* the not-found test left out
ProfileMissing_mut(item) == FALSE

\* the not-found test turned around
ProfileMissing_inverted(item) == item # NoProfile

\* the not-found test on the result of get_patient_data
ProfileMissing(item) == item = NoProfile

\* the skip test knowing NONE only
SkipAlert_mut(alert_type) == alert_type = "NONE"

\* send_alert's test for a verdict that needs no alert
SkipAlert(alert_type) == alert_type = "NONE" \/ alert_type = "ERROR"

\* the keys msg_body indexes, in the order the f-string evaluates them;
\* the first missing one raises KeyError
MissingKey(p, c) ==
    IF p.Name = Absent THEN "Name"
    ELSE IF p.Age = Absent THEN "Age"
    ELSE IF c.action = Absent THEN "action"
    ELSE IF p.Comorbidities = Absent THEN "Comorbidities"
    ELSE IF p.Meds = Absent THEN "Meds"
    ELSE Absent

\* a recipient counted as missing once any invocation has had a send to
\* it accepted
HasRecipient_dedup(p) ==
    /\ p.Caregiver_Email # Absent
    /\ p.Caregiver_Email # ""
    /\ ~ \E j \in DOMAIN calls : \E k \in 1..Len(calls[j]) :
             /\ calls[j][k].svc = "mail"
             /\ calls[j][k].to = p.Caregiver_Email
             /\ calls[j][k].result = "ack"

\* patient_data.get('Caregiver_Email') and its truth test
HasRecipient(p) == p.Caregiver_Email # Absent /\ p.Caregiver_Email # ""

SkippedResult == [AlertStatus |-> "Skipped",
                  Message |-> <<"No critical action required.">>]

MissingContactResult ==
    [AlertStatus |-> "FAILED",
     Message |-> <<"Caregiver Email missing in DynamoDB.">>]

SentResult(alert_type, recipient) ==
    [AlertStatus |-> "EMAIL_SENT_CONFIRMED",
     Message |-> <<"Guaranteed email alert sent for ", alert_type,
                   " to caregiver: ", recipient>>]

RejectedResult(reason) ==
    [AlertStatus |-> "FAILED", Message |-> <<"SES Error: ", reason>>]

(* ---------------- external calls, as recorded ---------------- *)

\* a call of a service and its answer; reason is the provider's message
\* of a rejected send
Call(svc, to, result) ==
    [svc |-> svc, to |-> to, result |-> result, reason |-> ""]

CallsTo(i, svc) == {k \in 1..Len(calls[i]) : calls[i][k].svc = svc}

(* ---------------- the state machine ---------------- *)

InitOver(invocations) ==
    /\ pc = [i \in invocations |-> "idle"]
    /\ event = [i \in invocations |-> NoEvent]
    /\ clients = [i \in invocations |-> "unset"]
    /\ user_input = [i \in invocations |-> << >>]
    /\ patient_data = [i \in invocations |-> NoProfile]
    /\ completion_text = [i \in invocations |-> << >>]
    /\ classification = [i \in invocations |-> EmptyObj]
    /\ alert_result = [i \in invocations |-> NoAlert]
    /\ calls = [i \in invocations |-> << >>]
    /\ response = [i \in invocations |-> << >>]

Init == InitOver({1})

\* return env: the invocation ends with this response
Return(i, env) ==
    /\ pc' = [pc EXCEPT ![i] = "done"]
    /\ response' = [response EXCEPT ![i] = Append(@, env)]

\* an exception raised inside the try block with no except clause to
\* catch it: the invocation ends without a response
Handled_mut(i, detail) ==
    /\ pc' = [pc EXCEPT ![i] = "done"]
    /\ response' = response

\* an exception raised inside the try block of lambda_handler
Handled(i, detail) == Return(i, ErrorEnvelope(detail))

Goto(i, label) ==
    /\ pc' = [pc EXCEPT ![i] = label]
    /\ response' = response

\* lambda_handler from its entry to the first external call: the clients
\* (initialize_clients hands back three handles, or three None when a
\* constructor raised), the entry gate and the request body, on an event
\* drawn from events
lambda_handler_over(i, events) ==
    /\ pc[i] = "idle"
    /\ \E ev \in events,
          failing \in {Absent} \cup {ClientNames[k] : k \in 1..3} :
          /\ event' = [event EXCEPT ![i] = ev]
          /\ clients' = [clients EXCEPT ![i] =
                IF initialize_clients(failing) = <<TRUE, TRUE, TRUE>>
                THEN "built" ELSE "none"]
          /\ IF ~AllClients(initialize_clients(failing))
             THEN Return(i, InitFailureEnvelope) /\ user_input' = user_input
             ELSE IF IsProbe(ev)
             THEN Return(i, ReadyEnvelope) /\ user_input' = user_input
             ELSE LET b == ParseBody(ev.body) IN
                  IF b.ok
                  THEN /\ user_input' = [user_input EXCEPT ![i] = b.text]
                       /\ Goto(i, "lookup")
                  ELSE Handled(i, b.detail) /\ user_input' = user_input
    /\ UNCHANGED <<patient_data, completion_text, classification,
                   alert_result, calls>>

lambda_handler(i) == lambda_handler_over(i, Events)

\* get_patient_data and the not-found test that follows it, the table
\* holding one of items (NoProfile: no item for the identifier)
get_patient_data_over(i, items) ==
    /\ pc[i] = "lookup"
    /\ \E item \in items \cup {NoProfile}, raised \in BOOLEAN :
          IF raised
          THEN /\ item = NoProfile
               /\ calls' = [calls EXCEPT
                              ![i] = Append(@, Call("store", "", "raise"))]
               /\ Handled(i, <<"ClientError">>)
               /\ patient_data' = patient_data
          ELSE /\ calls' = [calls EXCEPT ![i] = Append(@,
                     Call("store", "",
                          IF item = NoProfile THEN "absent" ELSE "item"))]
               /\ patient_data' = [patient_data EXCEPT ![i] = item]
               /\ IF ProfileMissing(item)
                  THEN Handled(i, NotFoundDetail)
                  ELSE Goto(i, "classify")
    /\ UNCHANGED <<event, clients, user_input, completion_text, classification,
                   alert_result>>

get_patient_data(i) == get_patient_data_over(i, Profiles)

\* classify_emergency on a completion drawn from texts, or on a model call
\* that raises
classify_over(i, texts) ==
    /\ pc[i] = "classify"
    /\ \E text \in texts, raised \in BOOLEAN :
          IF raised
          THEN /\ text = CHOOSE t \in texts : TRUE
               /\ calls' = [calls EXCEPT
                              ![i] = Append(@, Call("model", "", "raise"))]
               /\ Handled(i, <<"model invocation failed">>)
               /\ UNCHANGED <<completion_text, classification>>
          ELSE /\ calls' = [calls EXCEPT
                              ![i] = Append(@, Call("model", "", "text"))]
               /\ completion_text' = [completion_text EXCEPT ![i] = text]
               /\ LET r == extract_json(text) IN
                  IF r.kind = "raise"
                  THEN /\ Handled(i, <<"JSONDecodeError">>)
                       /\ classification' = classification
                  ELSE /\ classification' =
                              [classification EXCEPT ![i] = r.obj]
                       /\ Goto(i, "dispatch")
    /\ UNCHANGED <<event, clients, user_input, patient_data, alert_result>>

classify_emergency(i) == classify_over(i, CompletionTexts)

\* send_alert: the skip test, the message body, the recipient and the
\* send, the mail service answering with one of outcomes
send_alert_over(i, outcomes) ==
    /\ pc[i] = "dispatch"
    /\ LET p == patient_data[i]
           c == classification[i]
           alert_type == c.emergency_type
       IN  IF alert_type = Absent
           THEN /\ Handled(i, <<"KeyError: ", "emergency_type">>)
                /\ UNCHANGED <<alert_result, calls>>
           ELSE IF SkipAlert(alert_type)
           THEN /\ alert_result' = [alert_result EXCEPT ![i] = SkippedResult]
                /\ Goto(i, "respond")
                /\ calls' = calls
           ELSE IF MissingKey(p, c) # Absent
           THEN /\ Handled(i, <<"KeyError: ", MissingKey(p, c)>>)
                /\ UNCHANGED <<alert_result, calls>>
           ELSE IF ~HasRecipient(p)
           THEN /\ alert_result' =
                       [alert_result EXCEPT ![i] = MissingContactResult]
                /\ Goto(i, "respond")
                /\ calls' = calls
           ELSE \E outcome \in outcomes :
                  /\ calls' = [calls EXCEPT ![i] = Append(@,
                         IF outcome \in RejectReasons
                         THEN [Call("mail", p.Caregiver_Email, "reject")
                                  EXCEPT !.reason = outcome]
                         ELSE Call("mail", p.Caregiver_Email, outcome))]
                  /\ IF outcome = "ack"
                     THEN /\ alert_result' = [alert_result EXCEPT ![i] =
                                 SentResult(alert_type, p.Caregiver_Email)]
                          /\ Goto(i, "respond")
                     ELSE IF outcome \in RejectReasons
                     THEN /\ alert_result' = [alert_result EXCEPT ![i] =
                                 RejectedResult(outcome)]
                          /\ Goto(i, "respond")
                     ELSE /\ Handled(i, <<"EndpointConnectionError">>)
                          /\ alert_result' = alert_result
    /\ UNCHANGED <<event, clients, user_input, patient_data, completion_text,
                   classification>>

send_alert(i) == send_alert_over(i, MailOutcomes)

\* the success response: assembled, serialized and returned
respond(i) ==
    /\ pc[i] = "respond"
    /\ IF PacketSerializable(patient_data[i])
       THEN Return(i, SuccessEnvelope(user_input[i], classification[i],
                                      patient_data[i], alert_result[i]))
       ELSE Handled(i, <<"TypeError: not JSON serializable">>)
    /\ UNCHANGED <<event, clients, user_input, patient_data, completion_text,
                   classification, alert_result, calls>>

Next ==
    \E i \in DOMAIN pc :
        \/ lambda_handler(i)
        \/ get_patient_data(i)
        \/ classify_emergency(i)
        \/ send_alert(i)
        \/ respond(i)

Spec == Init /\ [][Next]_vars

(* ---------------- the classifier on its own ---------------- *)

SubmitEvent == [httpMethod |-> "POST",
                body |-> [kind |-> "object", symptoms |-> "string",
                          text |-> <<"chest pain">>]]

FullProfile == [Name |-> "str", Age |-> "number", Comorbidities |-> "list",
                Meds |-> "list", Caregiver_Email |-> CaregiverAddress]

\* an invocation that has read the profile and is about to classify
InitParse ==
    /\ pc = [i \in {1} |-> "classify"]
    /\ event = [i \in {1} |-> SubmitEvent]
    /\ clients = [i \in {1} |-> "built"]
    /\ user_input = [i \in {1} |-> <<"chest pain">>]
    /\ patient_data = [i \in {1} |-> FullProfile]
    /\ completion_text = [i \in {1} |-> << >>]
    /\ classification = [i \in {1} |-> EmptyObj]
    /\ alert_result = [i \in {1} |-> NoAlert]
    /\ calls = [i \in {1} |-> <<Call("store", "", "item")>>]
    /\ response = [i \in {1} |-> << >>]

classify_padded(i) == classify_over(i, PaddedTexts)

classify_short(i) == classify_over(i, ShortTexts)

NextParse ==
    \E i \in DOMAIN pc :
        \/ classify_padded(i)
        \/ classify_short(i)

SpecParse == InitParse /\ [][NextParse]_vars

(* ---------------- vocabulary of the properties ---------------- *)

Done(i) == pc[i] = "done"

\* the verbs of a health probe: no httpMethod at all, or GET
ProbeVerbs == {Absent, "GET"}

\* the invocation got a request that is not a health probe
Submitted(i) == pc[i] # "idle" /\ event[i].httpMethod \notin ProbeVerbs

\* the invocation got a health probe
Probed(i) == pc[i] # "idle" /\ event[i].httpMethod \in ProbeVerbs

HasCall(i, svc, result) ==
    \E k \in CallsTo(i, svc) : calls[i][k].result = result

\* the invocation returned exactly this envelope
Returned(i, env) == response[i] = <<env>>

ReturnedStatus(i, status) ==
    Len(response[i]) = 1 /\ response[i][1].status = status

RealTypes == {"CARDIAC_STROKE", "FALLS_FRACTURES", "BREATHING_CRISIS"}

CompleteProfile(p) ==
    /\ p.Name # Absent
    /\ p.Age # Absent
    /\ p.Comorbidities # Absent
    /\ p.Meds # Absent

(* ---------------- C1 ---------------- *)

\* C1: when the profile was found and the model call raises, the
\* invocation ends with status Success, the verdict is exactly the ERROR
\* sentinel, the alert outcome is Skipped and no mail is sent.
C1_ModelFailureYieldsSentinel ==
    \A i \in DOMAIN pc :
        (Done(i) /\ HasCall(i, "store", "item") /\ HasCall(i, "model", "raise"))
        => /\ ReturnedStatus(i, "Success")
           /\ classification[i] = ErrorVerdict
           /\ alert_result[i].AlertStatus = "Skipped"
           /\ CallsTo(i, "mail") = {}

(* ---------------- C2 ---------------- *)

\* C2: when the store has no item for the configured identifier, the
\* response is the 500 Error envelope whose detail names the identifier,
\* and neither the model nor the mail service is called.
C2_NotFoundAborts ==
    \A i \in DOMAIN pc :
        HasCall(i, "store", "absent")
        => /\ Done(i)
           /\ Len(response[i]) = 1
           /\ response[i][1].status = "Error"
           /\ response[i][1].statusCode = 500
           /\ \E k \in 1..Len(response[i][1].error_detail) :
                  response[i][1].error_detail[k] = PATIENT_ID
           /\ CallsTo(i, "model") = {}
           /\ CallsTo(i, "mail") = {}

C2_Witness ==
    \E i \in DOMAIN pc :
        HasCall(i, "store", "absent") /\ Done(i) /\ Submitted(i)

(* ---------------- C3 ---------------- *)

\* C3: with a complete profile that has a caregiver email and a verdict
\* whose emergency_type is a real emergency, the invocation makes exactly
\* one mail-send call, to the caregiver email, and an accepted send gives
\* the outcome EMAIL_SENT_CONFIRMED.
C3_RealEmergencySendsOnce ==
    \A i \in DOMAIN pc :
        (/\ Done(i)
         /\ CompleteProfile(patient_data[i])
         /\ HasRecipient(patient_data[i])
         /\ classification[i].emergency_type \in RealTypes)
        => /\ Cardinality(CallsTo(i, "mail")) = 1
           /\ \A k \in CallsTo(i, "mail") :
                 /\ calls[i][k].to = patient_data[i].Caregiver_Email
                 /\ calls[i][k].result = "ack"
                    => alert_result[i].AlertStatus = "EMAIL_SENT_CONFIRMED"

(* ---------------- C4 ---------------- *)

\* C4: a verdict whose emergency_type is NONE or ERROR is never mailed,
\* and once the dispatcher has run its outcome is Skipped, whatever the
\* profile holds and whatever the verdict's action is.
C4_NoneOrErrorSkips ==
    \A i \in DOMAIN pc :
        classification[i].emergency_type \in {"NONE", "ERROR"}
        => /\ CallsTo(i, "mail") = {}
           /\ pc[i] \in {"respond", "done"}
              => alert_result[i].AlertStatus = "Skipped"

C4_Witness ==
    \E i \in DOMAIN pc :
        /\ Done(i)
        /\ classification[i].emergency_type = "ERROR"
        /\ classification[i].action = "ALERT_FAMILY"
        /\ HasRecipient(patient_data[i])
        /\ alert_result[i] = SkippedResult

(* ---------------- C5 ---------------- *)

\* C5: with a real emergency verdict and a profile that has no caregiver
\* email (missing or empty), the alert outcome is FAILED with the message
\* about the missing contact, no mail is sent and the response is Success.
C5_MissingContactFails ==
    \A i \in DOMAIN pc :
        (/\ Done(i)
         /\ HasCall(i, "store", "item")
         /\ ~HasRecipient(patient_data[i])
         /\ classification[i].emergency_type \in RealTypes)
        => /\ alert_result[i] = MissingContactResult
           /\ CallsTo(i, "mail") = {}
           /\ ReturnedStatus(i, "Success")

(* ---------------- C6 ---------------- *)

\* C6: when the mail service rejects the send, the alert outcome is FAILED
\* and carries the provider's reason, and the response is Success with
\* statusCode 200.
C6_RejectedSendStaysSuccess ==
    \A i \in DOMAIN pc :
        (Done(i) /\ HasCall(i, "mail", "reject"))
        => /\ alert_result[i].AlertStatus = "FAILED"
           /\ \E reason \in RejectReasons :
                 alert_result[i] = RejectedResult(reason)
           /\ ReturnedStatus(i, "Success")
           /\ response[i][1].statusCode = 200
           /\ response[i][1].alert_status = alert_result[i]

(* ---------------- C7 ---------------- *)

\* C7 as stated: a health probe (no httpMethod, or GET) calls no service
\* and returns the static ready acknowledgment, whatever the body.
C7_ProbeAlwaysReady ==
    \A i \in DOMAIN pc :
        Probed(i) => /\ calls[i] = << >>
                     /\ Returned(i, ReadyEnvelope)

\* C7: a health probe (no httpMethod, or GET) calls no service, whatever
\* the body; it returns the static ready acknowledgment when the three
\* clients were built.
C7_ProbeReadyWhenBuilt ==
    \A i \in DOMAIN pc :
        Probed(i) => /\ calls[i] = << >>
                     /\ Done(i)
                     /\ clients[i] = "built" => Returned(i, ReadyEnvelope)

C7_Witness ==
    \E i \in DOMAIN pc :
        /\ Probed(i)
        /\ event[i].httpMethod = Absent
        /\ event[i].body.kind = "invalid"
        /\ clients[i] = "built"
        /\ Returned(i, ReadyEnvelope)

(* ---------------- C8 ---------------- *)

\* C8: a submit request ends with exactly one response, whose status is
\* Success or Error, and a Success response holds the verdict and the
\* alert outcome.
C8_OneResponse ==
    \A i \in DOMAIN pc :
        /\ Len(response[i]) <= 1
        /\ (Submitted(i) /\ Done(i))
           => /\ Len(response[i]) = 1
              /\ response[i][1].status \in {"Success", "Error"}
              /\ response[i][1].status = "Success"
                 => /\ {"ai_classification", "alert_status"}
                           \subseteq response[i][1].keys
                    /\ response[i][1].ai_classification = classification[i]
                    /\ response[i][1].alert_status = alert_result[i]
                    /\ alert_result[i].AlertStatus
                           \in {"Skipped", "EMAIL_SENT_CONFIRMED", "FAILED"}
                    /\ HasCall(i, "model", "text")

C8_Witness ==
    \E i \in DOMAIN pc :
        /\ Submitted(i)
        /\ Done(i)
        /\ ReturnedStatus(i, "Success")
        /\ response[i][1].alert_status.AlertStatus = "EMAIL_SENT_CONFIRMED"

(* ---------------- C9 ---------------- *)

\* C9: statusCode follows status in every response: Success goes with 200
\* also when the alert FAILED, and a client construction failure, a
\* missing patient and any exception go with status Error and 500.
C9_TransportMatchesStatus ==
    \A i \in DOMAIN pc :
        \A k \in 1..Len(response[i]) :
            LET r == response[i][k] IN
            /\ r.status = "Success" => r.statusCode = 200
            /\ r.status = "Error" => r.statusCode = 500
            /\ r.statusCode = 500 => r.status = "Error"
            /\ clients[i] = "none" => r.status = "Error"
            /\ HasCall(i, "store", "absent") => r.status = "Error"
            /\ "error_detail" \in r.keys => r.status = "Error"

C9_Witness ==
    \E i \in DOMAIN pc :
        /\ ReturnedStatus(i, "Success")
        /\ response[i][1].statusCode = 200
        /\ response[i][1].alert_status.AlertStatus = "FAILED"

(* ---------------- C10 ---------------- *)

\* the completion is the target object between a prefix and a suffix
Embeds(text, pre, suf) == text = pre \o TargetText \o suf

\* C10 as stated: whatever surrounds the object
\* {"emergency_type":"BREATHING_CRISIS","action":"ADVISE_INHALER"} in the
\* completion, the classifier returns exactly that object.
C10_AnyPaddingRoundTrips ==
    \A i \in DOMAIN pc :
        (HasCall(i, "model", "text")
         /\ \E pre \in Pads, suf \in Pads :
                Embeds(completion_text[i], pre, suf))
        => pc[i] = "dispatch" /\ classification[i] = TargetVerdict

\* C10: when the prefix holds no opening brace and the suffix no closing
\* brace, the classifier returns exactly the object
\* {"emergency_type":"BREATHING_CRISIS","action":"ADVISE_INHALER"}.
C10_BraceFreePaddingRoundTrips ==
    \A i \in DOMAIN pc :
        (HasCall(i, "model", "text")
         /\ \E pre \in Pads, suf \in Pads :
                /\ Embeds(completion_text[i], pre, suf)
                /\ find(pre, LBRACE) = -1
                /\ rfind(suf, RBRACE) = -1)
        => pc[i] = "dispatch" /\ classification[i] = TargetVerdict

C10_Witness ==
    \E i \in DOMAIN pc :
        /\ HasCall(i, "model", "text")
        /\ completion_text[i] = <<"Sure", RBRACE>> \o TargetText
                                    \o <<LBRACE, "##">>
        /\ classification[i] = TargetVerdict

(* ---------------- C11 ---------------- *)

\* C11: when a service client cannot be constructed, every request, probe
\* or submit, ends at once with the 500 Error initialization-failure
\* response, and no store read, model call or mail send is made.
C11_InitFailureShortCircuits ==
    \A i \in DOMAIN pc :
        clients[i] = "none"
        => /\ Done(i)
           /\ Returned(i, InitFailureEnvelope)
           /\ response[i][1].status = "Error"
           /\ response[i][1].statusCode = 500
           /\ calls[i] = << >>
           /\ user_input[i] = << >>

C11_Witness ==
    \E i \in DOMAIN pc :
        /\ clients[i] = "none"
        /\ event[i].httpMethod = "POST"
        /\ event[i].body.kind = "object"
        /\ Returned(i, InitFailureEnvelope)

(* ---------------- C12 ---------------- *)

\* C12: a request whose verb is not POST (no verb, GET, or another verb
\* such as OPTIONS) bypasses the workflow: with the clients built it calls
\* no service and, once answered, its response is the static ready
\* acknowledgment.
C12_OnlyPostEntersWorkflow ==
    \A i \in DOMAIN pc :
        (pc[i] # "idle" /\ clients[i] = "built"
         /\ event[i].httpMethod # "POST")
        => /\ calls[i] = << >>
           /\ Done(i) => Returned(i, ReadyEnvelope)

(* ---------------- C13 ---------------- *)

\* the closed sets of the data model
DeclaredTypes == {"CARDIAC_STROKE", "FALLS_FRACTURES", "BREATHING_CRISIS",
                  "NONE", "ERROR"}

DeclaredActions == {"MOCK_AMBULANCE_DISPATCH", "ADVISE_INHALER",
                    "ALERT_FAMILY", "NONE", "ERROR"}

\* no opening brace stands before a closing brace in the text
NoBracePair(text) ==
    ~ \E a \in 1..Len(text), b \in 1..Len(text) :
          a < b /\ text[a] = LBRACE /\ text[b] = RBRACE

\* C13 as stated: the verdict of every Success response has an
\* emergency_type and an action from the declared sets, whatever the model
\* returned.
C13_VerdictAlwaysDeclared ==
    \A i \in DOMAIN pc :
        ReturnedStatus(i, "Success")
        => /\ response[i][1].ai_classification.emergency_type
                  \in DeclaredTypes
           /\ response[i][1].ai_classification.action \in DeclaredActions

\* C13: the verdict of every Success response has an emergency_type, and
\* an action too unless the type is NONE or ERROR; both are from the
\* declared sets when the completion is an object giving both keys values
\* of those sets, or holds no brace pair (the ERROR sentinel).
C13_VerdictDeclaredWhenModelIs ==
    \A i \in DOMAIN pc :
        ReturnedStatus(i, "Success")
        => LET v == response[i][1].ai_classification IN
           /\ v.emergency_type # Absent
           /\ v.emergency_type \notin {"NONE", "ERROR"} => v.action # Absent
           /\ \A et \in DeclaredTypes, act \in DeclaredActions :
                 completion_text[i] = ObjText(et, act)
                 => v = [emergency_type |-> et, action |-> act,
                         other |-> FALSE]
           /\ NoBracePair(completion_text[i]) => v = ErrorVerdict

C13_Witness ==
    \E i \in DOMAIN pc :
        /\ ReturnedStatus(i, "Success")
        /\ completion_text[i] = ObjText("FALLS_FRACTURES", "ALERT_FAMILY")
        /\ response[i][1].ai_classification.emergency_type
               = "FALLS_FRACTURES"
        /\ response[i][1].ai_classification.action = "ALERT_FAMILY"

(* ---------------- C14 ---------------- *)

\* the text has a brace pair and what lies from its first opening brace
\* to its last closing brace is not a JSON value
SliceUnparseable(text) ==
    /\ ~NoBracePair(text)
    /\ LET t == strip(text) IN
       ~json_loads(slice(t, find(t, LBRACE), rfind(t, RBRACE) + 1)).ok

\* C14: when the completion has a brace pair whose slice does not parse,
\* the classifier returns the ERROR sentinel, and the invocation ends with
\* status Success and the alert outcome Skipped.
C14_UnparseableYieldsSentinel ==
    \A i \in DOMAIN pc :
        (HasCall(i, "model", "text") /\ SliceUnparseable(completion_text[i]))
        => /\ classification[i] = ErrorVerdict
           /\ Done(i) => /\ ReturnedStatus(i, "Success")
                         /\ alert_result[i].AlertStatus = "Skipped"

(* ---------------- C15 ---------------- *)

\* C15: a completion with no valid brace pair (no opening brace, no
\* closing brace, or the last closing brace before the first opening one,
\* the empty text included) gives exactly the ERROR sentinel and raises
\* nothing; what a parse leaves behind, another object or a parse error,
\* is seen only when an opening brace precedes a closing one.
C15_NoBracePairYieldsSentinel ==
    \A i \in DOMAIN pc :
        HasCall(i, "model", "text")
        => /\ NoBracePair(completion_text[i])
              => /\ pc[i] = "dispatch"
                 /\ classification[i] = ErrorVerdict
                 /\ response[i] = << >>
           /\ (classification[i] # ErrorVerdict \/ response[i] # << >>)
              => ~NoBracePair(completion_text[i])

C15_Witness ==
    \E i \in DOMAIN pc :
        /\ HasCall(i, "model", "text")
        /\ completion_text[i] = <<RBRACE, "Sure", LBRACE>>
        /\ pc[i] = "dispatch"
        /\ classification[i] = ErrorVerdict

(* ---------------- C16 ---------------- *)

\* C16: however the mail-send call fails, by a rejection of the provider
\* or by any other failure such as an unreachable service, the alert
\* outcome is FAILED and the invocation ends with status Success.
C16_SendFailureNeverAborts ==
    \A i \in DOMAIN pc :
        (Done(i) /\ \E k \in CallsTo(i, "mail") : calls[i][k].result # "ack")
        => /\ alert_result[i].AlertStatus = "FAILED"
           /\ ReturnedStatus(i, "Success")

(* ---------------- C17 ---------------- *)

\* the services called by invocation i, in the order of the calls
ServicesCalled(i) == [k \in 1..Len(calls[i]) |-> calls[i][k].svc]

\* s is an initial part of t
IsPrefix(s, t) == Len(s) <= Len(t) /\ s = SubSeq(t, 1, Len(s))

\* C17 (states): the calls of an invocation are an initial part of store
\* read, model inference, mail send, each at most once; the model is
\* called only after the store returned a profile, and mail is sent only
\* after the model returned a text from which the classifier made a
\* verdict.
C17_CallOrder ==
    \A i \in DOMAIN pc :
        /\ IsPrefix(ServicesCalled(i), <<"store", "model", "mail">>)
        /\ Len(calls[i]) >= 2
           => calls[i][1].result = "item" /\ patient_data[i] # NoProfile
        /\ Len(calls[i]) >= 3
           => /\ calls[i][2].result = "text"
              /\ classification[i] # EmptyObj
              /\ calls[i][3].to = patient_data[i].Caregiver_Email
        /\ pc[i] = "lookup" => calls[i] = << >>
        /\ pc[i] = "classify" => ServicesCalled(i) = <<"store">>
        /\ pc[i] = "dispatch" => ServicesCalled(i) = <<"store", "model">>

\* C17 (steps): a step adds at most one call at the end of the record of
\* an invocation and takes none back, and no call follows a mail send.
C17_CallsOnlyAppended ==
    \A i \in DOMAIN pc :
        /\ IsPrefix(calls[i], calls'[i])
        /\ Len(calls'[i]) <= Len(calls[i]) + 1
        /\ CallsTo(i, "mail") # {} => calls'[i] = calls[i]

\* C17: within one invocation the external calls are store read, then
\* model inference, then mail send, each at most once and never again
\* after a failed send.
C17_LinearCalls == [](C17_CallOrder) /\ [][C17_CallsOnlyAppended]_vars

C17_Witness ==
    \E i \in DOMAIN pc :
        /\ ServicesCalled(i) = <<"store", "model", "mail">>
        /\ calls[i][3].result = "reject"
        /\ Done(i)

(* ---------------- two invocations at once ---------------- *)

ProbeEvent == [httpMethod |-> "GET",
               body |-> [kind |-> "absent", symptoms |-> Absent,
                         text |-> << >>]]

ConcEvents == {SubmitEvent, ProbeEvent}

ConcProfiles == {FullProfile, [FullProfile EXCEPT !.Caregiver_Email = Absent]}

ConcTexts == {TargetText, ObjText("NONE", "NONE"), <<"Sure">>}

InitConc == InitOver({1, 2})

lambda_handler_conc(i) == lambda_handler_over(i, ConcEvents)

get_patient_data_conc(i) == get_patient_data_over(i, ConcProfiles)

classify_emergency_conc(i) == classify_over(i, ConcTexts)

\* one step of invocation i
StepConc(i) ==
    \/ lambda_handler_conc(i)
    \/ get_patient_data_conc(i)
    \/ classify_emergency_conc(i)
    \/ send_alert(i)
    \/ respond(i)

NextConc == \E i \in DOMAIN pc : StepConc(i)

SpecConc == InitConc /\ [][NextConc]_vars

(* ---------------- C18 ---------------- *)

\* everything invocation i holds
View(i) == <<pc[i], event[i], clients[i], user_input[i], patient_data[i],
             completion_text[i], classification[i], alert_result[i],
             calls[i], response[i]>>

\* what invocation i was given: its request and the answers of the
\* services it called
Given(i) == <<event[i], clients[i], patient_data[i], completion_text[i],
              calls[i]>>

\* what invocation i made of it
Made(i) == <<user_input[i], classification[i], alert_result[i],
             response[i]>>

Confirmed(i) == alert_result[i].AlertStatus = "EMAIL_SENT_CONFIRMED"

\* C18 (steps): a step is taken by one invocation and leaves everything
\* the other invocations hold as it was.
C18_StepTouchesOneInvocation ==
    \E i \in DOMAIN pc :
        \A j \in DOMAIN pc \ {i} : View(j)' = View(j)

\* C18 (states): an unfinished invocation can always take its next step;
\* finished invocations that were given the same made the same of it; a
\* dispatcher that ran on a verdict to alert and on a caregiver email made
\* its own mail-send call whatever the other invocations sent; and there
\* are as many accepted mail-send calls as confirmed outcomes.
C18_InvocationsIndependent ==
    /\ \A i \in DOMAIN pc : pc[i] # "done" => ENABLED StepConc(i)
    /\ \A i, j \in DOMAIN pc :
          (Done(i) /\ Done(j) /\ Given(i) = Given(j)) => Made(i) = Made(j)
    /\ \A i \in DOMAIN pc :
          /\ (/\ alert_result[i] # NoAlert
              /\ patient_data[i].Caregiver_Email = CaregiverAddress
              /\ classification[i].emergency_type \notin {"NONE", "ERROR"})
             => Cardinality(CallsTo(i, "mail")) = 1
          /\ Confirmed(i) <=> HasCall(i, "mail", "ack")
          /\ Cardinality(CallsTo(i, "mail")) <= 1
    /\ Cardinality({i \in DOMAIN pc : Confirmed(i)})
          = Cardinality({i \in DOMAIN pc : CallsTo(i, "mail") # {}
                             /\ HasCall(i, "mail", "ack")})

\* C18: invocations running at once are independent of each other, and
\* sends are not deduplicated: N invocations that reach an accepted send
\* make N mail-send calls, also on identical inputs.
C18_Independent ==
    [](C18_InvocationsIndependent) /\ [][C18_StepTouchesOneInvocation]_vars

C18_Witness ==
    /\ \A i \in DOMAIN pc : Done(i) /\ Confirmed(i) /\ HasCall(i, "mail", "ack")
    /\ Cardinality(DOMAIN pc) = 2
    /\ \A i, j \in DOMAIN pc : Given(i) = Given(j) /\ response[i] = response[j]

(* ---------------- C19 ---------------- *)

\* C19: an invocation whose mail-send call was accepted ends with status
\* Success and the alert outcome EMAIL_SENT_CONFIRMED in its response, so
\* an invocation that ends in the Error envelope has sent no email.
C19_AcceptedSendEndsInSuccess ==
    \A i \in DOMAIN pc :
        (Done(i) /\ HasCall(i, "mail", "ack"))
        => /\ ReturnedStatus(i, "Success")
           /\ response[i][1].alert_status.AlertStatus
                  = "EMAIL_SENT_CONFIRMED"

====
